---- MODULE Spec2Model ----
(***************************************************************************)
(* Model of the KalloView SDK (src/src/instructions.ts): the request       *)
(* encoders and instruction builders, the address (PDA) helpers, the five  *)
(* record decoders and the KalloViewClient facade with its transport.      *)
(*                                                                         *)
(* Representation.  A byte is a number in 0..255 and a buffer content a    *)
(* sequence of bytes.  A string is the sequence of its Unicode code        *)
(* points.  A Buffer is a record [store, byteOffset, length]: a window of  *)
(* a backing ArrayBuffer.  A number read from a record is kept as          *)
(* [neg, mag] with mag its magnitude in little-endian base-256 digits      *)
(* without trailing zeros, so that 64-bit values keep their full width.    *)
(***************************************************************************)
EXTENDS Integers, Sequences, FiniteSets, TLC

VARIABLES
  ixArgs,     \* encoder specification: the operation and arguments last built
  ix,         \* encoder specification: the TransactionInstruction built from them
  decIn,      \* decoder specification: the record kind and field values laid out
  blob,       \* decoder specification: the Buffer handed to the decoder
  decOut,     \* decoder specification: what the decoder did with it
  programId,  \* KalloViewClient.programId
  curve,      \* the bumps whose hash lies on the signing curve
  clock,      \* the time source: new Date().toISOString()
  calls,      \* the facade calls in flight, by slot
  started     \* the number of facade calls started so far

vars == <<ixArgs, ix, decIn, blob, decOut, programId, curve, clock, calls, started>>
encVars == <<ixArgs, ix>>
decVars == <<decIn, blob, decOut>>
facVars == <<programId, curve, clock, calls, started>>

(***************************************************************************)
(* Bounds of the model.                                                    *)
(***************************************************************************)
MaxStrLen == 2
MaxPad == 1
MaxCalls == 2

(***************************************************************************)
(* Bytes and strings.                                                      *)
(***************************************************************************)
Byte == 0..255

Fill(n, b) == [i \in 1..n |-> b]

\* Buffer.from(str, 'utf8') on one code point.
Utf8(cp) ==
  IF cp < 128 THEN <<cp>>
  ELSE IF cp < 2048 THEN <<192 + (cp \div 64), 128 + (cp % 64)>>
  ELSE IF cp < 65536
    THEN <<224 + (cp \div 4096), 128 + ((cp \div 64) % 64), 128 + (cp % 64)>>
    ELSE <<240 + (cp \div 262144), 128 + ((cp \div 4096) % 64),
           128 + ((cp \div 64) % 64), 128 + (cp % 64)>>

RECURSIVE Utf8Bytes(_)
Utf8Bytes(str) ==
  IF str = <<>> THEN <<>> ELSE Utf8(Head(str)) \o Utf8Bytes(Tail(str))

\* Buffer.writeUInt32LE(n, 0) on a 4-byte buffer.
writeUInt32LE(n) ==
  <<n % 256, (n \div 256) % 256, (n \div 65536) % 256, (n \div 16777216) % 256>>

ByteOfClamped(n) == IF n < 0 THEN 0 ELSE IF n > 255 THEN 255 ELSE n

\* Buffer.from([n]): an array element is stored as n modulo 256.
ByteOf(n) == n % 256

(***************************************************************************)
(* Instruction variants and the request encoders.                          *)
(***************************************************************************)
Initialize == 0
CreateProduct == 1
UpdateProduct == 2
DeleteProduct == 3
AddReview == 4
UpdateReview == 5
DailyClaim == 6

encodeStringCharCount(str) == writeUInt32LE(Len(str)) \o Utf8Bytes(str)

encodeString(str) ==
  LET strBuffer == Utf8Bytes(str)
      lengthBuffer == writeUInt32LE(Len(strBuffer))
  IN lengthBuffer \o strBuffer

encodeCreateProduct(productId, metadataUri) ==
  <<ByteOf(CreateProduct)>> \o encodeString(productId) \o encodeString(metadataUri)

encodeUpdateProduct(metadataUri) ==
  <<ByteOf(UpdateProduct)>> \o encodeString(metadataUri)

encodeAddReviewScoreLast(productId, score, comment) ==
  <<ByteOf(AddReview)>> \o encodeString(productId) \o encodeString(comment)
    \o <<ByteOf(score)>>

encodeAddReview(productId, score, comment) ==
  <<ByteOf(AddReview)>> \o encodeString(productId) \o <<ByteOf(score)>>
    \o encodeString(comment)

encodeUpdateReview(score, comment) ==
  <<ByteOf(UpdateReview)>> \o <<ByteOf(score)>> \o encodeString(comment)

(***************************************************************************)
(* Addresses.  A PublicKey is a record; a program-derived address stands   *)
(* for the hash of (seeds, bump, program identifier, suffix), taken to be  *)
(* collision-free, so it is kept as the tuple of the hash's inputs.        *)
(***************************************************************************)
PUBLIC_KEY_LENGTH == 32
MAX_SEED_LENGTH == 32

Key(bytes) == [pda |-> FALSE, bytes |-> bytes, seeds |-> <<>>, bump |-> 0, owner |-> <<>>]
Hashed(seeds, bump, owner) ==
  [pda |-> TRUE, bytes |-> <<>>, seeds |-> seeds, bump |-> bump, owner |-> owner.bytes]

\* PublicKey.toBuffer()
toBuffer(key) == key.bytes

PROGRAM_ID == Key(Fill(PUBLIC_KEY_LENGTH, 200))
SystemProgramId == Key(Fill(PUBLIC_KEY_LENGTH, 0))
SYSVAR_CLOCK_PUBKEY == Key(<<6>> \o Fill(PUBLIC_KEY_LENGTH - 1, 0))

\* PDA seed constants: 'config', 'product', 'review', 'user', 'daily_claims'
CONFIG_SEED == <<99, 111, 110, 102, 105, 103>>
PRODUCT_SEED == <<112, 114, 111, 100, 117, 99, 116>>
REVIEW_SEED == <<114, 101, 118, 105, 101, 119>>
USER_SEED == <<117, 115, 101, 114>>
DAILY_CLAIMS_SEED == <<100, 97, 105, 108, 121, 95, 99, 108, 97, 105, 109, 115>>

\* PublicKey.findProgramAddressSync: the bump search of spec section 4.1.  The
\* result is the address and bump, or the error thrown; it also keeps the
\* seeds and program identifier the derivation was asked for.
Derived(seeds, owner, bump) ==
  [ok |-> TRUE, seeds |-> seeds, owner |-> owner,
   address |-> Hashed(seeds, bump, owner), bump |-> bump, error |-> ""]
DeriveFailed(seeds, owner, error) ==
  [ok |-> FALSE, seeds |-> seeds, owner |-> owner,
   address |-> Key(<<>>), bump |-> 0, error |-> error]

\* The bumps from `from` down to 0 are tried in turn; the first whose hash
\* is off the curve is taken (tried counts the bumps rejected before it).
findFromBump(seeds, owner, from) ==
  IF \A b \in 0..from : b \in curve
    THEN DeriveFailed(seeds, owner, "Unable to find a viable program address nonce")
    ELSE LET tried == CHOOSE k \in 0..from :
                        /\ (from - k) \notin curve
                        /\ \A c \in (from - k + 1)..from : c \in curve
         IN Derived(seeds, owner, from - tried)

findProgramAddressSync(seeds, owner) ==
  IF \E i \in 1..Len(seeds) : Len(seeds[i]) > MAX_SEED_LENGTH
    THEN DeriveFailed(seeds, owner, "Max seed length exceeded")
    ELSE findFromBump(seeds, owner, 255)

getConfigPDA(owner) == findProgramAddressSync(<<CONFIG_SEED>>, owner)

getProductPDA(owner, productId) ==
  findProgramAddressSync(<<PRODUCT_SEED, Utf8Bytes(productId)>>, owner)

getReviewPDASwapped(owner, productId, reviewer) ==
  findProgramAddressSync(<<REVIEW_SEED, toBuffer(reviewer), Utf8Bytes(productId)>>, owner)

getReviewPDA(owner, productId, reviewer) ==
  findProgramAddressSync(<<REVIEW_SEED, Utf8Bytes(productId), toBuffer(reviewer)>>, owner)

getUserPDA(owner, user) == findProgramAddressSync(<<USER_SEED, toBuffer(user)>>, owner)

getDailyClaimsPDA(owner, user, date) ==
  findProgramAddressSync(<<DAILY_CLAIMS_SEED, toBuffer(user), Utf8Bytes(date)>>, owner)

(***************************************************************************)
(* Instruction builders.                                                   *)
(***************************************************************************)
Meta(pubkey, isSigner, isWritable) ==
  [pubkey |-> pubkey, isSigner |-> isSigner, isWritable |-> isWritable]

TransactionInstruction(keys, owner, data) ==
  [keys |-> keys, programId |-> owner, data |-> data]

createInitializeInstruction(owner, authority, configAccount) ==
  TransactionInstruction(
    <<Meta(authority, TRUE, TRUE), Meta(configAccount, FALSE, TRUE),
      Meta(SystemProgramId, FALSE, FALSE)>>,
    owner, <<ByteOf(Initialize)>>)

createCreateProductInstruction(owner, signer, productAccount, configAccount, productId, metadataUri) ==
  TransactionInstruction(
    <<Meta(signer, TRUE, TRUE), Meta(productAccount, FALSE, TRUE),
      Meta(configAccount, FALSE, TRUE), Meta(SystemProgramId, FALSE, FALSE),
      Meta(SYSVAR_CLOCK_PUBKEY, FALSE, FALSE)>>,
    owner, encodeCreateProduct(productId, metadataUri))

createUpdateProductInstruction(owner, signer, productAccount, metadataUri) ==
  TransactionInstruction(
    <<Meta(signer, TRUE, TRUE), Meta(productAccount, FALSE, TRUE)>>,
    owner, encodeUpdateProduct(metadataUri))

createDeleteProductInstruction(owner, signer, productAccount) ==
  TransactionInstruction(
    <<Meta(signer, TRUE, TRUE), Meta(productAccount, FALSE, TRUE)>>,
    owner, <<ByteOf(DeleteProduct)>>)

createAddReviewInstruction(owner, reviewer, productAccount, reviewAccount, userAccount, configAccount, productId, score, comment) ==
  TransactionInstruction(
    <<Meta(reviewer, TRUE, TRUE), Meta(productAccount, FALSE, TRUE),
      Meta(reviewAccount, FALSE, TRUE), Meta(userAccount, FALSE, TRUE),
      Meta(configAccount, FALSE, TRUE), Meta(SystemProgramId, FALSE, FALSE),
      Meta(SYSVAR_CLOCK_PUBKEY, FALSE, FALSE)>>,
    owner, encodeAddReview(productId, score, comment))

createUpdateReviewInstructionNoClock(owner, reviewer, reviewAccount, score, comment) ==
  TransactionInstruction(
    <<Meta(reviewer, TRUE, TRUE), Meta(reviewAccount, FALSE, TRUE)>>,
    owner, encodeUpdateReview(score, comment))

createUpdateReviewInstruction(owner, reviewer, reviewAccount, score, comment) ==
  TransactionInstruction(
    <<Meta(reviewer, TRUE, TRUE), Meta(reviewAccount, FALSE, TRUE),
      Meta(SYSVAR_CLOCK_PUBKEY, FALSE, FALSE)>>,
    owner, encodeUpdateReview(score, comment))

createDailyClaimInstruction(owner, user, userAccount, dailyClaimsAccount, configAccount) ==
  TransactionInstruction(
    <<Meta(user, TRUE, TRUE), Meta(userAccount, FALSE, TRUE),
      Meta(dailyClaimsAccount, FALSE, TRUE), Meta(configAccount, FALSE, TRUE),
      Meta(SystemProgramId, FALSE, FALSE), Meta(SYSVAR_CLOCK_PUBKEY, FALSE, FALSE)>>,
    owner, <<ByteOf(DailyClaim)>>)

\* getCurrentDateString: new Date().toISOString().split('T')[0]
RECURSIVE SplitHead(_, _)
SplitHead(str, sep) ==
  IF str = <<>> \/ Head(str) = sep THEN <<>>
  ELSE <<Head(str)>> \o SplitHead(Tail(str), sep)

getCurrentDateString == SplitHead(clock, 84)

(***************************************************************************)
(* Numbers read from a record.  A value is [neg, mag]; mag is the          *)
(* magnitude in little-endian base-256 digits without trailing zeros.      *)
(***************************************************************************)
RECURSIVE Strip(_)
Strip(bytes) ==
  IF bytes # <<>> /\ bytes[Len(bytes)] = 0
    THEN Strip(SubSeq(bytes, 1, Len(bytes) - 1)) ELSE bytes

Num(neg, bytes) == [neg |-> neg, mag |-> Strip(bytes)]

BitsOf(bytes, n) ==
  [i \in 0..(n - 1) |->
     IF (i \div 8) + 1 > Len(bytes) THEN 0
     ELSE (bytes[(i \div 8) + 1] \div (2 ^ (i % 8))) % 2]

BitAt(bits, i) == IF i \in DOMAIN bits THEN bits[i] ELSE 0

FromBits(bits, nbytes) ==
  [b \in 1..nbytes |->
     BitAt(bits, 8 * (b - 1)) + 2 * BitAt(bits, 8 * (b - 1) + 1)
       + 4 * BitAt(bits, 8 * (b - 1) + 2) + 8 * BitAt(bits, 8 * (b - 1) + 3)
       + 16 * BitAt(bits, 8 * (b - 1) + 4) + 32 * BitAt(bits, 8 * (b - 1) + 5)
       + 64 * BitAt(bits, 8 * (b - 1) + 6) + 128 * BitAt(bits, 8 * (b - 1) + 7)]

\* bits + 2^k, for bits on 0..n-1; the result is on 0..n.
AddPow2(bits, k, n) ==
  LET j == CHOOSE i \in k..n :
             /\ (i = n \/ bits[i] = 0)
             /\ \A h \in k..(i - 1) : bits[h] = 1
  IN [i \in 0..n |->
        IF i < k THEN bits[i]
        ELSE IF i < j THEN 0
        ELSE IF i = j THEN 1
        ELSE BitAt(bits, i)]

\* Number(bigint): the nearest double, ties to even (53 bits of mantissa).
RoundToDouble(mag) ==
  LET bits == BitsOf(mag, 64)
      set == {i \in 0..63 : bits[i] = 1}
      top == IF set = {} THEN -1 ELSE CHOOSE i \in set : \A h \in set : h <= i
      k == top - 52
      up == /\ bits[k - 1] = 1
            /\ (bits[k] = 1 \/ \E i \in 0..(k - 2) : bits[i] = 1)
      trunc == [i \in 0..63 |-> IF i < k THEN 0 ELSE bits[i]]
  IN IF top <= 52 THEN mag
     ELSE IF up THEN Strip(FromBits(AddPow2(trunc, k, 64), 9))
     ELSE Strip(FromBits(trunc, 8))

NumberOf(big) == [neg |-> big.neg, mag |-> RoundToDouble(big.mag)]

Negate64(bytes) ==
  LET bits == BitsOf(bytes, 64)
      inv == [i \in 0..63 |-> 1 - bits[i]]
  IN FromBits([i \in 0..63 |-> AddPow2(inv, 0, 64)[i]], 8)

\* The conversions the decoders apply to the bytes a read returns.
Uint8(bytes) == Num(FALSE, bytes)
Uint32(bytes) == Num(FALSE, bytes)
IsOne(bytes) == bytes = <<1>>
BigUint64(bytes) == Num(FALSE, bytes)
BigInt64(bytes) ==
  IF bytes[8] >= 128 THEN Num(TRUE, Negate64(bytes)) ELSE Num(FALSE, bytes)
NumberBigUint64(bytes) == NumberOf(BigUint64(bytes))
NumberBigInt64(bytes) == NumberOf(BigInt64(bytes))

\* A length read from the blob, as a number to compute offsets with.
ToInt(num) ==
  LET d == [i \in 1..4 |-> IF i <= Len(num.mag) THEN num.mag[i] ELSE 0]
  IN d[1] + 256 * d[2] + 65536 * d[3] + 16777216 * d[4]

\* new PublicKey(bytes): the big-endian number, kept as 32 bytes.
PublicKey(bytes) == Key(Fill(PUBLIC_KEY_LENGTH - Len(bytes), 0) \o bytes)

\* new TextDecoder().decode(bytes): UTF-8 with U+FFFD for every ill-formed
\* sequence and a leading byte order mark dropped.
Utf8Decode(bytes) ==
  LET n == Len(bytes)
      Need(b) == IF b < 128 THEN 0 ELSE IF b \in 194..223 THEN 1
                 ELSE IF b \in 224..239 THEN 2 ELSE IF b \in 240..244 THEN 3 ELSE -1
      Lo(b) == IF b = 224 THEN 160 ELSE IF b = 240 THEN 144 ELSE 128
      Hi(b) == IF b = 237 THEN 159 ELSE IF b = 244 THEN 143 ELSE 191
      \* the k bytes after the lead byte at i continue its sequence
      Continues(i, k) ==
        /\ i + k <= n
        /\ Need(bytes[i]) >= k
        /\ \A j \in 1..k :
             /\ bytes[i + j] >= (IF j = 1 THEN Lo(bytes[i]) ELSE 128)
             /\ bytes[i + j] <= (IF j = 1 THEN Hi(bytes[i]) ELSE 191)
      \* the byte at i is taken by the sequence of an earlier lead byte
      Taken(i) == \E k \in 1..3 : i - k >= 1 /\ Continues(i - k, k)
      Cp(i) ==
        LET b == bytes[i]
        IN IF Need(b) = 0 THEN b
           ELSE IF Need(b) = -1 \/ ~Continues(i, Need(b)) THEN 65533
           ELSE IF Need(b) = 1 THEN (b - 192) * 64 + (bytes[i + 1] - 128)
           ELSE IF Need(b) = 2
             THEN (b - 224) * 4096 + (bytes[i + 1] - 128) * 64 + (bytes[i + 2] - 128)
           ELSE (b - 240) * 262144 + (bytes[i + 1] - 128) * 4096
                  + (bytes[i + 2] - 128) * 64 + (bytes[i + 3] - 128)
      decoded == [i \in 1..n |-> IF Taken(i) THEN -1 ELSE Cp(i)]
      Kept(cp) == cp # -1
  IN SelectSeq(decoded, Kept)

TextDecode(bytes) ==
  LET d == Utf8Decode(bytes)
  IN IF d # <<>> /\ d[1] = 65279 THEN Tail(d) ELSE d

(***************************************************************************)
(* Record decoders.  A decoder walks the blob read by read; st is what it  *)
(* has so far: whether a read has thrown, the reads done (where in the     *)
(* backing store, how many bytes, and the cursor they were made for) and   *)
(* the fields read.                                                        *)
(***************************************************************************)
Min(a, b) == IF a <= b THEN a ELSE b

StartDecode(offset) ==
  [ok |-> TRUE, offset |-> offset, bytes |-> <<>>, reads |-> <<>>, fields |-> <<>>]

\* new DataView(data.buffer).getXxx(offset): w bytes of the whole backing
\* store, a RangeError when offset + w is past the end of the store.
ViewRead(st, data, w) ==
  IF ~st.ok THEN st
  ELSE IF st.offset + w > Len(data.store) THEN [st EXCEPT !.ok = FALSE]
  ELSE [st EXCEPT
          !.reads = Append(@, [via |-> "view", cursor |-> st.offset,
                               at |-> st.offset, width |-> w]),
          !.bytes = SubSeq(data.store, st.offset + 1, st.offset + w)]

\* data.slice(offset, offset + n): the bytes of the window, both ends clamped
\* to its length.
SliceRead(st, data, n) ==
  IF ~st.ok THEN st
  ELSE
    LET a == Min(st.offset, data.length)
        b == Min(st.offset + n, data.length)
    IN [st EXCEPT
          !.reads = Append(@, [via |-> "slice", cursor |-> st.offset,
                               at |-> data.byteOffset + a, width |-> b - a]),
          !.bytes = SubSeq(data.store, data.byteOffset + a + 1, data.byteOffset + b)]

\* const name = value
Put(st, name, value) ==
  IF st.ok THEN [st EXCEPT !.fields = @ @@ (name :> value)] ELSE st

\* The length a string's prefix gave (0 once a read has thrown).
LenField(st, name) == IF st.ok THEN ToInt(st.fields[name]) ELSE 0

\* offset = at, offset += n, offset += <name>Len
Seek(st, at) == [st EXCEPT !.offset = at]
Skip(st, n) == [st EXCEPT !.offset = @ + n]
SkipLen(st, name) == [st EXCEPT !.offset = @ + LenField(st, name)]

getUint8(st, data, name) ==
  LET r == ViewRead(st, data, 1) IN Put(r, name, Uint8(r.bytes))

getUint8IsOne(st, data, name) ==
  LET r == ViewRead(st, data, 1) IN Put(r, name, IsOne(r.bytes))

getUint32(st, data, name) ==
  LET r == ViewRead(st, data, 4) IN Put(r, name, Uint32(r.bytes))

getBigUint64(st, data, name) ==
  LET r == ViewRead(st, data, 8) IN Put(r, name, NumberBigUint64(r.bytes))

getBigInt64(st, data, name) ==
  LET r == ViewRead(st, data, 8) IN Put(r, name, NumberBigInt64(r.bytes))

\* new PublicKey(data.slice(offset, offset + 32))
slicePublicKey(st, data, name) ==
  LET r == SliceRead(st, data, PUBLIC_KEY_LENGTH) IN Put(r, name, PublicKey(r.bytes))

\* new TextDecoder().decode(data.slice(offset, offset + <lenName>))
sliceText(st, data, lenName, name) ==
  LET r == SliceRead(st, data, LenField(st, lenName)) IN Put(r, name, TextDecode(r.bytes))

\* The state after the statements of a function body ran, first to last.
InOrder(states) == states[Len(states)]

Decoded(st, names) ==
  [ok |-> st.ok, reads |-> st.reads,
   rec |-> IF st.ok THEN [n \in names |-> st.fields[n]] ELSE <<>>]

parseConfigData(data) ==
  LET s1 == getUint8IsOne(StartDecode(0), data, "isInitialized")
      s2 == slicePublicKey(Seek(s1, 1), data, "authority")
      s3 == getBigUint64(Seek(s2, 33), data, "totalProducts")
      s4 == getBigUint64(Seek(s3, 41), data, "totalReviews")
      s5 == getBigUint64(Seek(s4, 49), data, "totalUsers")
      s6 == getBigUint64(Seek(s5, 57), data, "totalTransactions")
      s7 == getUint8(Seek(s6, 65), data, "version")
  IN Decoded(InOrder(<<s1, s2, s3, s4, s5, s6, s7>>),
             {"isInitialized", "authority", "totalProducts", "totalReviews",
              "totalUsers", "totalTransactions", "version"})

parseProductData(data) ==
  LET s1 == Skip(getUint32(StartDecode(1), data, "productIdLen"), 4)
      s2 == SkipLen(sliceText(s1, data, "productIdLen", "productId"), "productIdLen")
      s3 == Skip(slicePublicKey(s2, data, "owner"), 32)
      s4 == Skip(getUint32(s3, data, "totalScores"), 4)
      s5 == Skip(getUint32(s4, data, "totalReviews"), 4)
      s6 == Skip(getUint32(s5, data, "metadataUriLen"), 4)
      s7 == SkipLen(sliceText(s6, data, "metadataUriLen", "metadataUri"),
                    "metadataUriLen")
      s8 == Skip(getUint8IsOne(s7, data, "status"), 1)
      s9 == getBigInt64(s8, data, "createdAt")
  IN Decoded(InOrder(<<s1, s2, s3, s4, s5, s6, s7, s8, s9>>),
             {"productId", "owner", "totalScores", "totalReviews",
              "metadataUri", "status", "createdAt"})

parseReviewData(data) ==
  LET s1 == Skip(getUint32(StartDecode(1), data, "productIdLen"), 4)
      s2 == SkipLen(sliceText(s1, data, "productIdLen", "productId"), "productIdLen")
      s3 == Skip(slicePublicKey(s2, data, "reviewer"), 32)
      s4 == Skip(getUint8(s3, data, "score"), 1)
      s5 == Skip(getUint32(s4, data, "commentLen"), 4)
      s6 == SkipLen(sliceText(s5, data, "commentLen", "comment"), "commentLen")
      s7 == Skip(getBigInt64(s6, data, "createdAt"), 8)
      s8 == getBigInt64(s7, data, "updatedAt")
  IN Decoded(InOrder(<<s1, s2, s3, s4, s5, s6, s7, s8>>),
             {"productId", "reviewer", "score", "comment", "createdAt",
              "updatedAt"})

parseUserData(data) ==
  LET s1 == Skip(slicePublicKey(StartDecode(1), data, "userAddress"), 32)
      s2 == Skip(getBigUint64(s1, data, "dailyPoints"), 8)
      s3 == Skip(getBigUint64(s2, data, "reviewPoints"), 8)
      s4 == Skip(getBigInt64(s3, data, "lastClaimTime"), 8)
      s5 == getUint32(s4, data, "totalReviews")
  IN Decoded(InOrder(<<s1, s2, s3, s4, s5>>),
             {"userAddress", "dailyPoints", "reviewPoints", "lastClaimTime",
              "totalReviews"})

parseDailyClaimsData(data) ==
  LET s1 == Skip(slicePublicKey(StartDecode(1), data, "user"), 32)
      s2 == Skip(getUint32(s1, data, "dateLen"), 4)
      s3 == SkipLen(sliceText(s2, data, "dateLen", "date"), "dateLen")
      s4 == getUint8(s3, data, "claimsCount")
  IN Decoded(InOrder(<<s1, s2, s3, s4>>),
             {"user", "date", "claimsCount"})

(***************************************************************************)
(* The stored layout of each record kind (spec section 3): the             *)
(* initialization flag, then the fields in table order, a string as a      *)
(* 4-byte little-endian length and its UTF-8 bytes, integers               *)
(* little-endian.                                                          *)
(***************************************************************************)
Pad(bytes, n) == bytes \o Fill(n - Len(bytes), 0)
LayoutString(str) == writeUInt32LE(Len(Utf8Bytes(str))) \o Utf8Bytes(str)
LayoutBool(b) == IF b THEN <<1>> ELSE <<0>>
LayoutUnsigned(num, n) == Pad(num.mag, n)
LayoutI64(num) == IF num.neg THEN Negate64(num.mag) ELSE Pad(num.mag, 8)

LayoutConfig(x) ==
  LayoutBool(x.isInitialized) \o x.authority.bytes
    \o LayoutUnsigned(x.totalProducts, 8) \o LayoutUnsigned(x.totalReviews, 8)
    \o LayoutUnsigned(x.totalUsers, 8) \o LayoutUnsigned(x.totalTransactions, 8)
    \o LayoutUnsigned(x.version, 1)

LayoutProduct(x) ==
  <<1>> \o LayoutString(x.productId) \o x.owner.bytes
    \o LayoutUnsigned(x.totalScores, 4) \o LayoutUnsigned(x.totalReviews, 4)
    \o LayoutString(x.metadataUri) \o LayoutBool(x.status) \o LayoutI64(x.createdAt)

LayoutReview(x) ==
  <<1>> \o LayoutString(x.productId) \o x.reviewer.bytes
    \o LayoutUnsigned(x.score, 1) \o LayoutString(x.comment)
    \o LayoutI64(x.createdAt) \o LayoutI64(x.updatedAt)

LayoutUser(x) ==
  <<1>> \o x.userAddress.bytes \o LayoutUnsigned(x.dailyPoints, 8)
    \o LayoutUnsigned(x.reviewPoints, 8) \o LayoutI64(x.lastClaimTime)
    \o LayoutUnsigned(x.totalReviews, 4)

LayoutDailyClaims(x) ==
  <<1>> \o x.user.bytes \o LayoutString(x.date) \o LayoutUnsigned(x.claimsCount, 1)

(***************************************************************************)
(* Inputs.                                                                 *)
(***************************************************************************)
\* 'x', e-acute, the euro sign and an emoji: 1, 2, 3 and 4 bytes of UTF-8.
Alphabet == {120, 233, 8364, 128512}

RECURSIVE StringsUpTo(_)
StringsUpTo(n) ==
  IF n = 0 THEN {<<>>}
  ELSE LET shorter == StringsUpTo(n - 1)
       IN shorter \cup {Append(str, c) : str \in shorter, c \in Alphabet}

StrP1 == <<112, 49>>
StrGreat == <<103, 114, 101, 97, 116>>
Strings == StringsUpTo(MaxStrLen) \cup {StrP1, StrGreat}

Scores == {0, 5, 255, 256, 261, -1}

Signers == {Key(Fill(PUBLIC_KEY_LENGTH, 1)), Key(Fill(PUBLIC_KEY_LENGTH, 2))}
KeyOf(n) == Key(Fill(PUBLIC_KEY_LENGTH, n))

(***************************************************************************)
(* Encoder specification: every action builds one instruction from         *)
(* arguments drawn from the inputs.                                        *)
(***************************************************************************)
Args(op, signer, productId, metadataUri, score, comment) ==
  [op |-> op, signer |-> signer, productId |-> productId,
   metadataUri |-> metadataUri, score |-> score, comment |-> comment]

NoArgs == [op |-> "none"]
NoInstruction == [data |-> <<>>]

InitDec ==
  /\ decIn = [kind |-> "none", rec |-> <<>>, whole |-> FALSE]
  /\ blob = [store |-> <<>>, byteOffset |-> 0, length |-> 0]
  /\ decOut = [ok |-> FALSE, reads |-> <<>>, rec |-> <<>>]

InitFacIdle ==
  /\ programId = PROGRAM_ID
  /\ curve = {}
  /\ clock = <<>>
  /\ calls = <<>>
  /\ started = 0

InitEncIdle == ixArgs = NoArgs /\ ix = NoInstruction

InitEnc == InitEncIdle /\ InitDec /\ InitFacIdle

BuildInitialize ==
  /\ ixArgs.op = "none"
  /\ \E signer \in Signers :
       /\ ixArgs' = Args("Initialize", signer, <<>>, <<>>, 0, <<>>)
       /\ ix' = createInitializeInstruction(PROGRAM_ID, signer, KeyOf(11))
  /\ UNCHANGED <<decVars, facVars>>

BuildCreateProduct ==
  /\ ixArgs.op = "none"
  /\ \E signer \in Signers, productId \in Strings, metadataUri \in Strings :
       /\ ixArgs' = Args("CreateProduct", signer, productId, metadataUri, 0, <<>>)
       /\ ix' = createCreateProductInstruction(PROGRAM_ID, signer, KeyOf(12),
                   KeyOf(11), productId, metadataUri)
  /\ UNCHANGED <<decVars, facVars>>

BuildUpdateProduct ==
  /\ ixArgs.op = "none"
  /\ \E signer \in Signers, metadataUri \in Strings :
       /\ ixArgs' = Args("UpdateProduct", signer, <<>>, metadataUri, 0, <<>>)
       /\ ix' = createUpdateProductInstruction(PROGRAM_ID, signer, KeyOf(12),
                   metadataUri)
  /\ UNCHANGED <<decVars, facVars>>

BuildDeleteProduct ==
  /\ ixArgs.op = "none"
  /\ \E signer \in Signers :
       /\ ixArgs' = Args("DeleteProduct", signer, <<>>, <<>>, 0, <<>>)
       /\ ix' = createDeleteProductInstruction(PROGRAM_ID, signer, KeyOf(12))
  /\ UNCHANGED <<decVars, facVars>>

BuildAddReview ==
  /\ ixArgs.op = "none"
  /\ \E signer \in Signers, productId \in Strings, score \in Scores,
        comment \in Strings :
       /\ ixArgs' = Args("AddReview", signer, productId, <<>>, score, comment)
       /\ ix' = createAddReviewInstruction(PROGRAM_ID, signer, KeyOf(12),
                   KeyOf(13), KeyOf(14), KeyOf(11), productId, score, comment)
  /\ UNCHANGED <<decVars, facVars>>

BuildUpdateReview ==
  /\ ixArgs.op = "none"
  /\ \E signer \in Signers, score \in Scores, comment \in Strings :
       /\ ixArgs' = Args("UpdateReview", signer, <<>>, <<>>, score, comment)
       /\ ix' = createUpdateReviewInstruction(PROGRAM_ID, signer, KeyOf(13),
                   score, comment)
  /\ UNCHANGED <<decVars, facVars>>

BuildDailyClaim ==
  /\ ixArgs.op = "none"
  /\ \E signer \in Signers :
       /\ ixArgs' = Args("DailyClaim", signer, <<>>, <<>>, 0, <<>>)
       /\ ix' = createDailyClaimInstruction(PROGRAM_ID, signer, KeyOf(14),
                   KeyOf(15), KeyOf(11))
  /\ UNCHANGED <<decVars, facVars>>

NextEnc ==
  \/ BuildInitialize
  \/ BuildCreateProduct
  \/ BuildUpdateProduct
  \/ BuildDeleteProduct
  \/ BuildAddReview
  \/ BuildUpdateReview
  \/ BuildDailyClaim

SpecEnc == InitEnc /\ [][NextEnc]_vars

(***************************************************************************)
(* Decoder specification: every action lays out one record, cuts the       *)
(* layout to some length, places it in a backing store and decodes it.     *)
(***************************************************************************)
RecordStrings == {<<>>, <<120>>, <<233, 8364>>}
StrDate == <<50, 48, 50, 52, 45, 48, 49, 45, 48, 49>>

\* 100, 50, 3, 5, 2^53 + 1, 2^32 - 1, 1700000000 and -1
N100 == Num(FALSE, <<100>>)
N50 == Num(FALSE, <<50>>)
N3 == Num(FALSE, <<3>>)
N5 == Num(FALSE, <<5>>)
U64Values == {N100, Num(FALSE, <<1, 0, 0, 0, 0, 0, 32>>)}
U32Values == {N3, Num(FALSE, <<255, 255, 255, 255>>)}
I64Values == {Num(FALSE, <<0, 241, 83, 101>>), Num(TRUE, <<1>>)}

ConfigRecords ==
  {[isInitialized |-> i, authority |-> KeyOf(1), totalProducts |-> p,
    totalReviews |-> N100, totalUsers |-> N50, totalTransactions |-> N100,
    version |-> N3] : i \in BOOLEAN, p \in U64Values}

ProductRecords ==
  {[productId |-> id, owner |-> KeyOf(1), totalScores |-> t, totalReviews |-> N3,
    metadataUri |-> uri, status |-> st, createdAt |-> c] :
     id \in RecordStrings, t \in U32Values, uri \in {<<>>, <<233, 8364>>},
     st \in BOOLEAN, c \in {Num(FALSE, <<0, 241, 83, 101>>)}}

ReviewRecords ==
  {[productId |-> id, reviewer |-> KeyOf(2), score |-> N5, comment |-> cm,
    createdAt |-> c, updatedAt |-> Num(FALSE, <<0, 241, 83, 101>>)] :
     id \in RecordStrings, cm \in {<<>>, <<233, 8364>>}, c \in I64Values}

UserRecords ==
  {[userAddress |-> KeyOf(2), dailyPoints |-> d, reviewPoints |-> N50,
    lastClaimTime |-> c, totalReviews |-> t] :
     d \in U64Values, c \in I64Values, t \in U32Values}

DailyClaimsRecords ==
  {[user |-> KeyOf(2), date |-> d, claimsCount |-> N3] : d \in {<<>>, StrDate}}

FillBytes == {0, 7}

\* A Buffer holding bytes at byteOffset pre of a store with post bytes after it.
MakeBuffer(bytes, pre, post, fill) ==
  [store |-> Fill(pre, fill) \o bytes \o Fill(post, fill),
   byteOffset |-> pre, length |-> Len(bytes)]

DecInput(kind, x, whole) == [kind |-> kind, rec |-> x, whole |-> whole]

InitDecSpec == InitEncIdle /\ InitDec /\ InitFacIdle

ParseConfig ==
  /\ decIn.kind = "none"
  /\ \E x \in ConfigRecords, pre \in 0..MaxPad, post \in 0..MaxPad, fill \in FillBytes :
       \E cut \in 0..Len(LayoutConfig(x)) :
         LET data == MakeBuffer(SubSeq(LayoutConfig(x), 1, cut), pre, post, fill)
         IN /\ decIn' = DecInput("Config", x, cut = Len(LayoutConfig(x)))
            /\ blob' = data
            /\ decOut' = parseConfigData(data)
  /\ UNCHANGED <<encVars, facVars>>

ParseProduct ==
  /\ decIn.kind = "none"
  /\ \E x \in ProductRecords, pre \in 0..MaxPad, post \in 0..MaxPad, fill \in FillBytes :
       \E cut \in 0..Len(LayoutProduct(x)) :
         LET data == MakeBuffer(SubSeq(LayoutProduct(x), 1, cut), pre, post, fill)
         IN /\ decIn' = DecInput("Product", x, cut = Len(LayoutProduct(x)))
            /\ blob' = data
            /\ decOut' = parseProductData(data)
  /\ UNCHANGED <<encVars, facVars>>

ParseReview ==
  /\ decIn.kind = "none"
  /\ \E x \in ReviewRecords, pre \in 0..MaxPad, post \in 0..MaxPad, fill \in FillBytes :
       \E cut \in 0..Len(LayoutReview(x)) :
         LET data == MakeBuffer(SubSeq(LayoutReview(x), 1, cut), pre, post, fill)
         IN /\ decIn' = DecInput("Review", x, cut = Len(LayoutReview(x)))
            /\ blob' = data
            /\ decOut' = parseReviewData(data)
  /\ UNCHANGED <<encVars, facVars>>

ParseUser ==
  /\ decIn.kind = "none"
  /\ \E x \in UserRecords, pre \in 0..MaxPad, post \in 0..MaxPad, fill \in FillBytes :
       \E cut \in 0..Len(LayoutUser(x)) :
         LET data == MakeBuffer(SubSeq(LayoutUser(x), 1, cut), pre, post, fill)
         IN /\ decIn' = DecInput("User", x, cut = Len(LayoutUser(x)))
            /\ blob' = data
            /\ decOut' = parseUserData(data)
  /\ UNCHANGED <<encVars, facVars>>

ParseDailyClaims ==
  /\ decIn.kind = "none"
  /\ \E x \in DailyClaimsRecords, pre \in 0..MaxPad, post \in 0..MaxPad,
        fill \in FillBytes :
       \E cut \in 0..Len(LayoutDailyClaims(x)) :
         LET data == MakeBuffer(SubSeq(LayoutDailyClaims(x), 1, cut), pre, post, fill)
         IN /\ decIn' = DecInput("DailyClaims", x, cut = Len(LayoutDailyClaims(x)))
            /\ blob' = data
            /\ decOut' = parseDailyClaimsData(data)
  /\ UNCHANGED <<encVars, facVars>>

NextDec ==
  \/ ParseConfig
  \/ ParseProduct
  \/ ParseReview
  \/ ParseUser
  \/ ParseDailyClaims

SpecDec == InitDecSpec /\ [][NextDec]_vars

(***************************************************************************)
(* KalloViewClient.  A call occupies a slot from its start to its return;  *)
(* between the two it awaits the transport.  A call keeps what it asked of *)
(* the address derivation and of the transport, and what it returned.      *)
(***************************************************************************)
Slots == {1, 2}

ProgramIds == {PROGRAM_ID, Key(Fill(PUBLIC_KEY_LENGTH, 201))}

\* On-curve bumps: the first one tried, or all of them.
CurveOracles == {{255}, 0..255}

\* "2024-01-01T23:59:59.000Z" and "2024-01-02T00:00:00.000Z"
ClockBefore ==
  <<50, 48, 50, 52, 45, 48, 49, 45, 48, 49, 84,
    50, 51, 58, 53, 57, 58, 53, 57, 46, 48, 48, 48, 90>>
ClockAfter ==
  <<50, 48, 50, 52, 45, 48, 49, 45, 48, 50, 84,
    48, 48, 58, 48, 48, 58, 48, 48, 46, 48, 48, 48, 90>>

\* A product identifier of nine emoji, 36 bytes of UTF-8: more than a seed
\* may have.
LongId == Fill((MAX_SEED_LENGTH \div 4) + 1, 128512)
ProductIds == {StrP1, LongId}
Uris == {<<120>>}
Comments == {StrGreat}
CallScores == {5}

\* The optional date argument: left out, "", a date, or a string too long
\* for a seed.
NoDate == [given |-> FALSE, value |-> <<>>]
DateArgs ==
  {NoDate, [given |-> TRUE, value |-> <<>>], [given |-> TRUE, value |-> StrDate],
   [given |-> TRUE, value |-> LongId]}

Handles == {"signature"}
TransportErrors == {"TransportError"}

CallArgs(signer, productId, metadataUri, score, comment, date) ==
  [signer |-> signer, productId |-> productId, metadataUri |-> metadataUri,
   score |-> score, comment |-> comment, date |-> date]

Pending == [status |-> "pending", record |-> <<>>, handle |-> "", error |-> ""]
Absent == [status |-> "absent", record |-> <<>>, handle |-> "", error |-> ""]
Found(rec) == [status |-> "record", record |-> rec, handle |-> "", error |-> ""]
Confirmed(handle) == [status |-> "handle", record |-> <<>>, handle |-> handle, error |-> ""]
Thrown(error) == [status |-> "error", record |-> <<>>, handle |-> "", error |-> error]

NoResponse == [kind |-> "none"]
Missing == [kind |-> "missing"]
Account(data) == [kind |-> "account", data |-> data]
FetchFailed(error) == [kind |-> "error", error |-> error]
SendOk(handle) == [kind |-> "confirmed", handle |-> handle]
SendFailed(error) == [kind |-> "error", error |-> error]

IdleCall ==
  [pc |-> "idle", op |-> "none", args |-> <<>>, derived |-> <<>>, fetched |-> <<>>,
   submitted |-> <<>>, response |-> NoResponse, decoderRan |-> FALSE,
   result |-> Pending]

\* The derivations a call makes one after the other: the first that throws
\* ends the list.
RECURSIVE UpToFailure(_)
UpToFailure(ds) ==
  IF ds = <<>> THEN <<>>
  ELSE IF ~Head(ds).ok THEN <<Head(ds)>>
  ELSE <<Head(ds)>> \o UpToFailure(Tail(ds))

AllOk(ds) == \A i \in 1..Len(ds) : ds[i].ok

BeginLookupFetchAnyway(op, args, d) ==
  [IdleCall EXCEPT !.pc = "fetching", !.op = op, !.args = args,
                   !.derived = <<d>>, !.fetched = <<d.address>>]

\* A lookup up to its await: the address is derived and
\* connection.getAccountInfo(address) is called; a derivation that throws is
\* caught, logged and null is returned.
BeginLookup(op, args, d) ==
  IF d.ok
    THEN [IdleCall EXCEPT !.pc = "fetching", !.op = op, !.args = args,
                          !.derived = <<d>>, !.fetched = <<d.address>>]
    ELSE [IdleCall EXCEPT !.pc = "done", !.op = op, !.args = args,
                          !.derived = <<d>>, !.result = Absent]

\* A new call takes the lowest free slot.
CanStart(slot) ==
  /\ started < MaxCalls
  /\ calls[slot].pc = "idle"
  /\ \A other \in Slots : other < slot => calls[other].pc # "idle"
Started(slot, call) == [calls EXCEPT ![slot] = call]

getConfig(slot) ==
  /\ CanStart(slot)
  /\ calls' = Started(slot, BeginLookup("getConfig",
    CallArgs(Key(<<>>), <<>>, <<>>, 0, <<>>, NoDate), getConfigPDA(programId)))
  /\ started' = started + 1
  /\ UNCHANGED <<programId, curve, clock, encVars, decVars>>

getProduct(slot) ==
  \E productId \in ProductIds :
    /\ CanStart(slot)
    /\ calls' = Started(slot, BeginLookup("getProduct",
      CallArgs(Key(<<>>), productId, <<>>, 0, <<>>, NoDate),
      getProductPDA(programId, productId)))
    /\ started' = started + 1
    /\ UNCHANGED <<programId, curve, clock, encVars, decVars>>

getReview(slot) ==
  \E productId \in ProductIds, reviewer \in Signers :
    /\ CanStart(slot)
    /\ calls' = Started(slot, BeginLookup("getReview",
      CallArgs(reviewer, productId, <<>>, 0, <<>>, NoDate),
      getReviewPDA(programId, productId, reviewer)))
    /\ started' = started + 1
    /\ UNCHANGED <<programId, curve, clock, encVars, decVars>>

getUser(slot) ==
  \E userAddress \in Signers :
    /\ CanStart(slot)
    /\ calls' = Started(slot, BeginLookup("getUser",
      CallArgs(userAddress, <<>>, <<>>, 0, <<>>, NoDate),
      getUserPDA(programId, userAddress)))
    /\ started' = started + 1
    /\ UNCHANGED <<programId, curve, clock, encVars, decVars>>

\* date || getCurrentDateString(): an omitted and an empty date are both falsy.
DateOrToday(date) ==
  IF date.given /\ date.value # <<>> THEN date.value ELSE getCurrentDateString

getDailyClaims(slot) ==
  \E userAddress \in Signers, date \in DateArgs :
    /\ CanStart(slot)
    /\ calls' = Started(slot, BeginLookup("getDailyClaims",
      CallArgs(userAddress, <<>>, <<>>, 0, <<>>, date),
      getDailyClaimsPDA(programId, userAddress, DateOrToday(date))))
    /\ started' = started + 1
    /\ UNCHANGED <<programId, curve, clock, encVars, decVars>>

\* The parser each lookup hands the account data to.
ParseFor(op, data) ==
  CASE op = "getConfig" -> parseConfigData(data)
    [] op = "getProduct" -> parseProductData(data)
    [] op = "getReview" -> parseReviewData(data)
    [] op = "getUser" -> parseUserData(data)
    [] op = "getDailyClaims" -> parseDailyClaimsData(data)

\* A lookup after its await: null when there is no account info; otherwise
\* the parser's record; whatever the fetch or the parser throws is caught,
\* logged and null is returned.
LookupResult(op, response) ==
  IF response.kind = "error" THEN Absent
  ELSE IF response.kind = "missing" THEN Absent
  ELSE LET parsed == ParseFor(op, response.data)
       IN IF parsed.ok THEN Found(parsed.rec) ELSE Absent

DecoderRuns(response) == response.kind = "account"

\* What the ledger may hold at an address of a kind: nothing, an empty blob,
\* a record in a store of its own or in a pooled store, and a record cut one
\* byte short in either.
ExampleLayout(op) ==
  CASE op = "getConfig" ->
         LayoutConfig([isInitialized |-> TRUE, authority |-> KeyOf(1),
           totalProducts |-> N3, totalReviews |-> N5, totalUsers |-> N3,
           totalTransactions |-> N100, version |-> N3])
    [] op = "getProduct" ->
         LayoutProduct([productId |-> StrP1, owner |-> KeyOf(1),
           totalScores |-> N5, totalReviews |-> N3, metadataUri |-> <<120>>,
           status |-> TRUE, createdAt |-> Num(FALSE, <<0, 241, 83, 101>>)])
    [] op = "getReview" ->
         LayoutReview([productId |-> StrP1, reviewer |-> KeyOf(2), score |-> N5,
           comment |-> StrGreat, createdAt |-> Num(FALSE, <<0, 241, 83, 101>>),
           updatedAt |-> Num(FALSE, <<0, 241, 83, 101>>)])
    [] op = "getUser" ->
         LayoutUser([userAddress |-> KeyOf(2), dailyPoints |-> N100,
           reviewPoints |-> N50, lastClaimTime |-> Num(FALSE, <<0, 241, 83, 101>>),
           totalReviews |-> N3])
    [] op = "getDailyClaims" ->
         LayoutDailyClaims([user |-> KeyOf(2), date |-> StrDate, claimsCount |-> N3])

FetchResponses(op) ==
  LET whole == ExampleLayout(op)
      short == SubSeq(whole, 1, Len(whole) - 1)
  IN {Missing, Account(MakeBuffer(<<>>, 0, 0, 0))}
       \cup {FetchFailed(e) : e \in TransportErrors}
       \cup {Account(MakeBuffer(bytes, pad, pad, 7)) :
               bytes \in {whole, short}, pad \in {0, MaxPad}}

Lookups == {"getConfig", "getProduct", "getReview", "getUser", "getDailyClaims"}

\* connection.getAccountInfo settles and the lookup runs to its return.
FetchReturns(slot) ==
  /\ calls[slot].pc = "fetching"
  /\ \E response \in FetchResponses(calls[slot].op) :
       calls' = [calls EXCEPT ![slot].pc = "done",
                              ![slot].response = response,
                              ![slot].decoderRan = DecoderRuns(response),
                              ![slot].result = LookupResult(calls[slot].op, response)]
  /\ UNCHANGED <<programId, curve, clock, started, encVars, decVars>>

\* new Transaction().add(instruction)
Transaction(instruction) == [instructions |-> <<instruction>>]

\* sendAndConfirmTransaction(connection, transaction, [signer], ...): what is
\* handed to the transport is appended to the call's submissions.
SubmitTwice(submitted, transaction, signer) ==
  submitted \o <<[transaction |-> transaction, signers |-> <<signer>>],
                 [transaction |-> transaction, signers |-> <<signer>>]>>

Submit(submitted, transaction, signer) ==
  Append(submitted, [transaction |-> transaction, signers |-> <<signer>>])

\* A write up to its await: the addresses are derived one after the other,
\* the instruction is built and sent; a derivation that throws rejects the
\* call before anything is built.
BeginWrite(op, args, ds, instruction) ==
  IF AllOk(ds)
    THEN [IdleCall EXCEPT !.pc = "submitting", !.op = op, !.args = args,
                          !.derived = ds,
                          !.submitted = Submit(<<>>, Transaction(instruction), args.signer)]
    ELSE LET done == UpToFailure(ds)
         IN [IdleCall EXCEPT !.pc = "done", !.op = op, !.args = args,
                             !.derived = done,
                             !.result = Thrown(done[Len(done)].error)]

createProduct(slot) ==
  \E owner \in Signers, productId \in ProductIds, metadataUri \in Uris :
    LET product == getProductPDA(programId, productId)
        config == getConfigPDA(programId)
    IN /\ CanStart(slot)
       /\ calls' = Started(slot, BeginWrite("createProduct",
         CallArgs(owner, productId, metadataUri, 0, <<>>, NoDate),
         <<product, config>>,
         createCreateProductInstruction(programId, owner, product.address,
           config.address, productId, metadataUri)))
       /\ started' = started + 1
       /\ UNCHANGED <<programId, curve, clock, encVars, decVars>>

updateProduct(slot) ==
  \E owner \in Signers, productId \in ProductIds, metadataUri \in Uris :
    LET product == getProductPDA(programId, productId)
    IN /\ CanStart(slot)
       /\ calls' = Started(slot, BeginWrite("updateProduct",
         CallArgs(owner, productId, metadataUri, 0, <<>>, NoDate),
         <<product>>,
         createUpdateProductInstruction(programId, owner, product.address,
           metadataUri)))
       /\ started' = started + 1
       /\ UNCHANGED <<programId, curve, clock, encVars, decVars>>

deleteProduct(slot) ==
  \E owner \in Signers, productId \in ProductIds :
    LET product == getProductPDA(programId, productId)
    IN /\ CanStart(slot)
       /\ calls' = Started(slot, BeginWrite("deleteProduct",
         CallArgs(owner, productId, <<>>, 0, <<>>, NoDate),
         <<product>>,
         createDeleteProductInstruction(programId, owner, product.address)))
       /\ started' = started + 1
       /\ UNCHANGED <<programId, curve, clock, encVars, decVars>>

addReview(slot) ==
  \E reviewer \in Signers, productId \in ProductIds, score \in CallScores,
     comment \in Comments :
    LET product == getProductPDA(programId, productId)
        review == getReviewPDA(programId, productId, reviewer)
        user == getUserPDA(programId, reviewer)
        config == getConfigPDA(programId)
    IN /\ CanStart(slot)
       /\ calls' = Started(slot, BeginWrite("addReview",
         CallArgs(reviewer, productId, <<>>, score, comment, NoDate),
         <<product, review, user, config>>,
         createAddReviewInstruction(programId, reviewer, product.address,
           review.address, user.address, config.address, productId, score, comment)))
       /\ started' = started + 1
       /\ UNCHANGED <<programId, curve, clock, encVars, decVars>>

updateReview(slot) ==
  \E reviewer \in Signers, productId \in ProductIds, score \in CallScores,
     comment \in Comments :
    LET review == getReviewPDA(programId, productId, reviewer)
    IN /\ CanStart(slot)
       /\ calls' = Started(slot, BeginWrite("updateReview",
         CallArgs(reviewer, productId, <<>>, score, comment, NoDate),
         <<review>>,
         createUpdateReviewInstruction(programId, reviewer, review.address,
           score, comment)))
       /\ started' = started + 1
       /\ UNCHANGED <<programId, curve, clock, encVars, decVars>>

dailyClaim(slot) ==
  \E signer \in Signers :
    LET user == getUserPDA(programId, signer)
        today == getCurrentDateString
        dailyClaims == getDailyClaimsPDA(programId, signer, today)
        config == getConfigPDA(programId)
    IN /\ CanStart(slot)
       /\ calls' = Started(slot, BeginWrite("dailyClaim",
         CallArgs(signer, <<>>, <<>>, 0, <<>>, NoDate),
         <<user, dailyClaims, config>>,
         createDailyClaimInstruction(programId, signer, user.address,
           dailyClaims.address, config.address)))
       /\ started' = started + 1
       /\ UNCHANGED <<programId, curve, clock, encVars, decVars>>

Writes == {"createProduct", "updateProduct", "deleteProduct", "addReview",
           "updateReview", "dailyClaim"}

SendResponses ==
  {SendOk(h) : h \in Handles} \cup {SendFailed(e) : e \in TransportErrors}

\* return await sendAndConfirmTransaction(...): the signature, or the
\* rejection as it is.
WriteResult(response) ==
  IF response.kind = "confirmed" THEN Confirmed(response.handle)
  ELSE Thrown(response.error)

\* sendAndConfirmTransaction settles and the write runs to its return.
SendReturns(slot) ==
  /\ calls[slot].pc = "submitting"
  /\ \E response \in SendResponses :
       calls' = [calls EXCEPT ![slot].pc = "done",
                              ![slot].response = response,
                              ![slot].result = WriteResult(response)]
  /\ UNCHANGED <<programId, curve, clock, started, encVars, decVars>>

\* The caller takes the result of a finished call; the slot is free again.
Return(slot) ==
  /\ calls[slot].pc = "done"
  /\ started < MaxCalls
  /\ calls' = [calls EXCEPT ![slot] = IdleCall]
  /\ UNCHANGED <<programId, curve, clock, started, encVars, decVars>>

\* Midnight UTC passes.
Tick ==
  /\ clock = ClockBefore
  /\ clock' = ClockAfter
  /\ UNCHANGED <<programId, curve, calls, started, encVars, decVars>>

Init ==
  /\ InitEncIdle
  /\ InitDec
  /\ programId \in ProgramIds
  /\ curve \in CurveOracles
  /\ clock = ClockBefore
  /\ calls = [slot \in Slots |-> IdleCall]
  /\ started = 0

Next ==
  \/ \E slot \in Slots : getConfig(slot)
  \/ \E slot \in Slots : getProduct(slot)
  \/ \E slot \in Slots : getReview(slot)
  \/ \E slot \in Slots : getUser(slot)
  \/ \E slot \in Slots : getDailyClaims(slot)
  \/ \E slot \in Slots : FetchReturns(slot)
  \/ \E slot \in Slots : createProduct(slot)
  \/ \E slot \in Slots : updateProduct(slot)
  \/ \E slot \in Slots : deleteProduct(slot)
  \/ \E slot \in Slots : addReview(slot)
  \/ \E slot \in Slots : updateReview(slot)
  \/ \E slot \in Slots : dailyClaim(slot)
  \/ \E slot \in Slots : SendReturns(slot)
  \/ \E slot \in Slots : Return(slot)
  \/ Tick

Spec == Init /\ [][Next]_vars

(***************************************************************************)
(* Claims about the encoders.                                              *)
(***************************************************************************)
\* The number of UTF-8 bytes of a string, counted code point by code point.
RECURSIVE Utf8Count(_)
Utf8Count(str) ==
  IF str = <<>> THEN 0
  ELSE (IF Head(str) < 128 THEN 1 ELSE IF Head(str) < 2048 THEN 2
        ELSE IF Head(str) < 65536 THEN 3 ELSE 4) + Utf8Count(Tail(str))

\* C1: the payload of every operation is its tag byte (0..6) followed by its
\* arguments in declared order with no padding, a string as encodeString gives
\* it and the score as one byte (the score itself when it is in 0..255); the
\* operations without arguments encode to exactly one byte; and
\* AddReview("p1", 5, "great") is [4, 2,0,0,0, 'p','1', 5, 5,0,0,0, 'g','r','e','a','t'].
C1_PayloadLayout ==
  LET a == ixArgs
      d == ix.data
      ScoreBytes == IF a.score \in Byte THEN {a.score} ELSE Byte
  IN /\ a.op = "Initialize" => d = <<0>>
     /\ a.op = "CreateProduct" =>
          d = <<1>> \o encodeString(a.productId) \o encodeString(a.metadataUri)
     /\ a.op = "UpdateProduct" => d = <<2>> \o encodeString(a.metadataUri)
     /\ a.op = "DeleteProduct" => d = <<3>>
     /\ a.op = "AddReview" =>
          \E b \in ScoreBytes :
            d = <<4>> \o encodeString(a.productId) \o <<b>> \o encodeString(a.comment)
     /\ a.op = "UpdateReview" =>
          \E b \in ScoreBytes : d = <<5>> \o <<b>> \o encodeString(a.comment)
     /\ a.op = "DailyClaim" => d = <<6>>
     /\ (a.op = "AddReview" /\ a.productId = StrP1 /\ a.score = 5
           /\ a.comment = StrGreat) =>
          d = <<4, 2, 0, 0, 0, 112, 49, 5, 5, 0, 0, 0, 103, 114, 101, 97, 116>>

C1_Witness ==
  /\ ixArgs.op = "AddReview" /\ ixArgs.productId = StrP1
  /\ ixArgs.score = 5 /\ ixArgs.comment = StrGreat
  /\ Len(ix.data) = 17

\* C2: encodeString(s) is a 4-byte little-endian prefix holding the number of
\* UTF-8 bytes of s (not its character count) followed by exactly those bytes;
\* encodeString("") is 4 zero bytes and encodeString("x") is 01 00 00 00 78.
\* Read off the UpdateProduct payload, which is the tag and encodeString(uri).
C2_StringEncoding ==
  ixArgs.op = "UpdateProduct" =>
    LET str == ixArgs.metadataUri
        e == Tail(ix.data)
        n == Utf8Count(str)
    IN /\ Len(e) = 4 + n
       /\ e[1] + 256 * e[2] + 65536 * e[3] + 16777216 * e[4] = n
       /\ \A i \in 1..4 : e[i] \in Byte
       /\ SubSeq(e, 5, Len(e)) = Utf8Bytes(str)
       /\ str = <<>> => e = <<0, 0, 0, 0>>
       /\ str = <<120>> => e = <<1, 0, 0, 0, 120>>

C2_Witness ==
  /\ ixArgs.op = "UpdateProduct"
  /\ ixArgs.metadataUri = <<8364, 233>>
  /\ Len(ix.data) = 10

(***************************************************************************)
(* Claims about the decoders.                                              *)
(***************************************************************************)
\* The bytes of the blob: the window of its backing store.
Window == SubSeq(blob.store, blob.byteOffset + 1, blob.byteOffset + blob.length)

\* C3: decoding the blob that lays out a record x in the section 3 field order
\* returns a record whose every field equals x.
C3_RoundTrip ==
  (decIn.kind # "none" /\ decIn.whole) => (decOut.ok /\ decOut.rec = decIn.rec)

\* C4: every read of a decoder addresses only bytes of the blob's window, at
\* the cursor position counted from the window's start, and none goes past
\* the blob's declared length.
C4_ReadsInsideBlob ==
  \A i \in 1..Len(decOut.reads) :
    LET r == decOut.reads[i]
    IN r.width > 0 =>
         /\ r.at = blob.byteOffset + r.cursor
         /\ r.at + r.width <= blob.byteOffset + blob.length

\* The size of the smallest valid record of a kind (both strings empty).
MinRecordSize(kind) ==
  CASE kind = "Config" -> 1 + 32 + 8 + 8 + 8 + 8 + 1
    [] kind = "Product" -> 1 + 4 + 32 + 4 + 4 + 4 + 1 + 8
    [] kind = "Review" -> 1 + 4 + 32 + 1 + 4 + 8 + 8
    [] kind = "User" -> 1 + 32 + 8 + 8 + 8 + 4
    [] kind = "DailyClaims" -> 1 + 32 + 4 + 1
    [] OTHER -> 0

\* A length prefix at position pos of the window that is wholly inside it and
\* announces more bytes than the window has left.
PrefixAt(pos) ==
  Window[pos + 1] + 256 * Window[pos + 2] + 65536 * Window[pos + 3]
    + 16777216 * Window[pos + 4]
Overruns(pos) == pos + 4 <= blob.length /\ pos + 4 + PrefixAt(pos) > blob.length
Fits(pos) == pos + 4 <= blob.length /\ pos + 4 + PrefixAt(pos) <= blob.length

PrefixOverrun ==
  CASE decIn.kind = "Product" ->
         Overruns(1) \/ (Fits(1) /\ Overruns(1 + 4 + PrefixAt(1) + 32 + 4 + 4))
    [] decIn.kind = "Review" ->
         Overruns(1) \/ (Fits(1) /\ Overruns(1 + 4 + PrefixAt(1) + 32 + 1))
    [] decIn.kind = "DailyClaims" -> Overruns(1 + 32)
    [] OTHER -> FALSE

\* C5: decoding a blob shorter than the smallest valid record of its kind, or
\* whose string length prefix implies a slice beyond the end of the blob, ends
\* in a decode failure and returns no record.
C5_ShortBlobFails ==
  (decIn.kind # "none" /\ (blob.length < MinRecordSize(decIn.kind) \/ PrefixOverrun))
    => ~decOut.ok

(***************************************************************************)
(* Claims about the facade.                                                *)
(***************************************************************************)
IsLookup(c) == c.op \in Lookups
IsWrite(c) == c.op \in Writes
AddressOf(d) == d.address
EmptyOrMissing(response) ==
  \/ response.kind = "missing"
  \/ (response.kind = "account" /\ response.data.length = 0)

\* C6: a lookup fetches at exactly the address derived from its arguments,
\* returns absent for a missing or empty blob without invoking the decoder on
\* it, and otherwise returns what decoding the fetched bytes gives.
C6_LookupFlow ==
  \A slot \in Slots :
    LET c == calls[slot]
    IN (c.pc = "done" /\ IsLookup(c) /\ AllOk(c.derived)) =>
         /\ c.fetched = <<AddressOf(c.derived[1])>>
         /\ EmptyOrMissing(c.response) => (c.result = Absent /\ ~c.decoderRan)
         /\ (c.response.kind = "account" /\ c.response.data.length > 0) =>
              /\ c.decoderRan
              /\ ParseFor(c.op, c.response.data).ok =>
                   c.result = Found(ParseFor(c.op, c.response.data).rec)

\* C7: a lookup returns the absent sentinel only for a missing or empty blob;
\* a transport failure and a decode failure on a non-empty blob each reach the
\* caller as an error, never as absent.
C7_NoSwallowedError ==
  \A slot \in Slots :
    LET c == calls[slot]
    IN (c.pc = "done" /\ IsLookup(c) /\ AllOk(c.derived)) =>
         /\ c.response.kind = "error" => c.result.status = "error"
         /\ (c.response.kind = "account" /\ c.response.data.length > 0
               /\ ~ParseFor(c.op, c.response.data).ok) => c.result.status = "error"
         /\ c.result.status = "absent" => EmptyOrMissing(c.response)

\* C8 as stated: every finished write has handed its instruction to the
\* transport exactly once and returned the handle, or failed with the
\* transport's failure.
C8_ExactlyOnce ==
  \A slot \in Slots :
    LET c == calls[slot]
    IN (c.pc = "done" /\ IsWrite(c)) =>
         /\ Len(c.submitted) = 1
         /\ c.response.kind = "confirmed" => c.result = Confirmed(c.response.handle)
         /\ c.response.kind = "error" => c.result = Thrown(c.response.error)

\* C8 as amended: a write hands its instruction to the transport at most once,
\* and exactly once when all its address derivations succeed; it then returns
\* the transport's handle unchanged or fails with the transport's failure.
\* When a derivation fails the call fails with that error, nothing submitted.
C8_AtMostOnce ==
  \A slot \in Slots :
    LET c == calls[slot]
    IN IsWrite(c) =>
         /\ Len(c.submitted) <= 1
         /\ AllOk(c.derived) <=> Len(c.submitted) = 1
         /\ ~AllOk(c.derived) =>
              /\ c.pc = "done"
              /\ c.response.kind = "none"
              /\ c.result = Thrown(c.derived[Len(c.derived)].error)
         /\ c.pc = "submitting" => (c.result = Pending /\ c.response.kind = "none")
         /\ (c.pc = "done" /\ AllOk(c.derived)) =>
              /\ c.response.kind \in {"confirmed", "error"}
              /\ c.response.kind = "confirmed" =>
                   c.result = Confirmed(c.response.handle)
              /\ c.response.kind = "error" => c.result = Thrown(c.response.error)

C8_Witness ==
  \E slot \in Slots :
    /\ calls[slot].pc = "done" /\ calls[slot].op = "addReview"
    /\ Len(calls[slot].submitted) = 1
    /\ calls[slot].response.kind = "error"
    /\ calls[slot].result.status = "error"

\* C9: the seed lists are ["config"], ["product", productId],
\* ["review", productId, reviewer], ["user", user] and
\* ["daily_claims", user, date], in this order; every lookup and write derives
\* the addresses it uses from them with the client's program identifier and
\* its own arguments (the reviewer of a review operation is the signer), and
\* the addresses it fetches or lists are the derived ones.
SeedConfig(d) == d.seeds = <<(<<99, 111, 110, 102, 105, 103>>)>>
SeedProduct(d, productId) ==
  d.seeds = <<(<<112, 114, 111, 100, 117, 99, 116>>), Utf8Bytes(productId)>>
SeedReview(d, productId, reviewer) ==
  d.seeds = <<(<<114, 101, 118, 105, 101, 119>>), Utf8Bytes(productId), reviewer.bytes>>
SeedUser(d, user) == d.seeds = <<(<<117, 115, 101, 114>>), user.bytes>>
SeedDailyClaims(d, user, dates) ==
  /\ Len(d.seeds) = 3
  /\ d.seeds[1] = <<100, 97, 105, 108, 121, 95, 99, 108, 97, 105, 109, 115>>
  /\ d.seeds[2] = user.bytes
  /\ \E date \in dates : d.seeds[3] = Utf8Bytes(date)

ClockDates == {SplitHead(ClockBefore, 84), SplitHead(ClockAfter, 84)}

C9_SeedLists ==
  \A slot \in Slots :
    LET c == calls[slot]
        a == c.args
        Has(i) == i <= Len(c.derived)
        IsConfig(i) == Has(i) => SeedConfig(c.derived[i])
        IsProduct(i) == Has(i) => SeedProduct(c.derived[i], a.productId)
        IsReview(i) == Has(i) => SeedReview(c.derived[i], a.productId, a.signer)
        IsUser(i) == Has(i) => SeedUser(c.derived[i], a.signer)
        IsDaily(i) ==
          Has(i) => SeedDailyClaims(c.derived[i], a.signer,
                      IF c.op = "getDailyClaims" /\ a.date.given /\ a.date.value # <<>>
                        THEN {a.date.value} ELSE ClockDates)
        Count(n) == Len(c.derived) <= n /\ (AllOk(c.derived) => Len(c.derived) = n)
    IN c.op # "none" =>
         /\ \A i \in 1..Len(c.derived) :
              /\ c.derived[i].owner = programId
              /\ c.derived[i].ok =>
                   /\ AddressOf(c.derived[i]).pda
                   /\ AddressOf(c.derived[i]).seeds = c.derived[i].seeds
                   /\ AddressOf(c.derived[i]).owner = programId.bytes
         /\ c.op = "getConfig" => (Count(1) /\ IsConfig(1))
         /\ c.op = "getProduct" => (Count(1) /\ IsProduct(1))
         /\ c.op = "getReview" => (Count(1) /\ IsReview(1))
         /\ c.op = "getUser" => (Count(1) /\ IsUser(1))
         /\ c.op = "getDailyClaims" => (Count(1) /\ IsDaily(1))
         /\ c.op = "createProduct" => (Count(2) /\ IsProduct(1) /\ IsConfig(2))
         /\ c.op = "updateProduct" => (Count(1) /\ IsProduct(1))
         /\ c.op = "deleteProduct" => (Count(1) /\ IsProduct(1))
         /\ c.op = "addReview" =>
              (Count(4) /\ IsProduct(1) /\ IsReview(2) /\ IsUser(3) /\ IsConfig(4))
         /\ c.op = "updateReview" => (Count(1) /\ IsReview(1))
         /\ c.op = "dailyClaim" => (Count(3) /\ IsUser(1) /\ IsDaily(2) /\ IsConfig(3))
         /\ (IsLookup(c) /\ c.fetched # <<>>) =>
              c.fetched = <<AddressOf(c.derived[1])>>
         /\ (IsWrite(c) /\ c.submitted # <<>>) =>
              LET instruction == c.submitted[1].transaction.instructions[1]
              IN /\ instruction.programId = programId
                 /\ instruction.keys[1].pubkey = a.signer
                 /\ c.submitted[1].signers = <<a.signer>>
                 /\ \A i \in 1..Len(c.derived) :
                      instruction.keys[i + 1].pubkey = AddressOf(c.derived[i])

C9_Witness ==
  \E slot \in Slots :
    /\ calls[slot].op = "addReview"
    /\ calls[slot].pc = "submitting"
    /\ Len(calls[slot].derived) = 4
    /\ calls[slot].derived[2].seeds[3] = calls[slot].args.signer.bytes

\* C11: the account-role list of every operation is the payer first, the only
\* signer and writable; then every record address touched, non-signer and
\* writable; then the system address (exactly for Initialize, CreateProduct,
\* AddReview, DailyClaim) and the clock address (exactly for CreateProduct,
\* AddReview, UpdateReview, DailyClaim), non-signer and read-only, last; and
\* the list handed to the transport is this list, over the addresses the call
\* derived, unchanged.
InstructionOf(op) ==
  CASE op = "createProduct" -> "CreateProduct"
    [] op = "updateProduct" -> "UpdateProduct"
    [] op = "deleteProduct" -> "DeleteProduct"
    [] op = "addReview" -> "AddReview"
    [] op = "updateReview" -> "UpdateReview"
    [] op = "dailyClaim" -> "DailyClaim"
    [] OTHER -> op

CreatesRecord == {"Initialize", "CreateProduct", "AddReview", "DailyClaim"}
ReadsClock == {"CreateProduct", "AddReview", "UpdateReview", "DailyClaim"}

SharedTail(name) ==
  (IF name \in CreatesRecord
     THEN <<[pubkey |-> SystemProgramId, isSigner |-> FALSE, isWritable |-> FALSE]>>
     ELSE <<>>)
  \o (IF name \in ReadsClock
        THEN <<[pubkey |-> SYSVAR_CLOCK_PUBKEY, isSigner |-> FALSE, isWritable |-> FALSE]>>
        ELSE <<>>)

RolesOk(name, payer, keys) ==
  LET tail == SharedTail(name)
      last == Len(keys) - Len(tail)
  IN /\ last >= 2
     /\ keys[1] = [pubkey |-> payer, isSigner |-> TRUE, isWritable |-> TRUE]
     /\ \A i \in 2..last :
          /\ ~keys[i].isSigner
          /\ keys[i].isWritable
          /\ keys[i].pubkey \notin {SystemProgramId, SYSVAR_CLOCK_PUBKEY}
     /\ SubSeq(keys, last + 1, Len(keys)) = tail

\* createInitializeInstruction, which no facade operation calls, applied to
\* each payer and a configuration address.
InitializeRoles ==
  \A authority \in Signers :
    LET keys == createInitializeInstruction(PROGRAM_ID, authority, KeyOf(11)).keys
    IN /\ RolesOk("Initialize", authority, keys)
       /\ Len(keys) = 3
       /\ keys[2].pubkey = KeyOf(11)

C11_AccountRoles ==
  /\ ixArgs.op # "none" => RolesOk(ixArgs.op, ixArgs.signer, ix.keys)
  /\ InitializeRoles
  /\ \A slot \in DOMAIN calls :
       LET c == calls[slot]
       IN (IsWrite(c) /\ c.submitted # <<>>) =>
            LET sent == c.submitted[1].transaction.instructions
                name == InstructionOf(c.op)
            IN /\ Len(sent) = 1
               /\ RolesOk(name, c.args.signer, sent[1].keys)
               /\ Len(sent[1].keys) = 1 + Len(c.derived) + Len(SharedTail(name))
               /\ \A i \in 1..Len(c.derived) :
                    sent[1].keys[i + 1].pubkey = AddressOf(c.derived[i])

C11_Witness ==
  \E slot \in Slots :
    /\ calls[slot].op = "addReview"
    /\ Len(calls[slot].submitted) = 1
    /\ Len(calls[slot].submitted[1].transaction.instructions[1].keys) = 7
    /\ calls[slot].submitted[1].transaction.instructions[1].keys[7].pubkey
         = SYSVAR_CLOCK_PUBKEY

\* C12: a daily-claims lookup that starts derives its address with the
\* caller's date string as third seed whenever a date argument is given, and
\* with today's UTC date (the YYYY-MM-DD of the clock at the call) only when
\* none is given; a dailyClaim that starts always derives its daily-claims
\* address with today's UTC date.
Today(now) == Utf8Bytes(SubSeq(now, 1, 10))

StartsIn(slot, op) == calls[slot].op = "none" /\ calls'[slot].op = op

C12_DateSeed ==
  [][\A slot \in Slots :
       /\ StartsIn(slot, "getDailyClaims") =>
            LET c == calls'[slot]
            IN /\ Len(c.derived) = 1
               /\ Len(c.derived[1].seeds) = 3
               /\ c.derived[1].seeds[3] =
                    (IF c.args.date.given THEN Utf8Bytes(c.args.date.value)
                     ELSE Today(clock))
       /\ StartsIn(slot, "dailyClaim") =>
            LET c == calls'[slot]
            IN Len(c.derived) >= 2 =>
                 /\ Len(c.derived[2].seeds) = 3
                 /\ c.derived[2].seeds[3] = Today(clock)]_vars

\* C13: concurrent calls are independent: what a call derives, fetches and
\* submits is fixed by its own operation and arguments (and, where it takes
\* today's date, the day of the call), and what it returns is fixed by these
\* and the transport's response to its own request, the response to a fetch
\* being the bytes of the blob.
BlobOf(data) == SubSeq(data.store, data.byteOffset + 1, data.byteOffset + data.length)

UsesToday(c) ==
  \/ c.op = "dailyClaim"
  \/ c.op = "getDailyClaims" /\ ~(c.args.date.given /\ c.args.date.value # <<>>)

SameRequest(c1, c2) ==
  /\ c1.op # "none"
  /\ c1.op = c2.op
  /\ c1.args = c2.args
  /\ UsesToday(c1) => c1.derived = c2.derived

SameResponse(r1, r2) ==
  /\ r1.kind = r2.kind
  /\ r1.kind = "account" => BlobOf(r1.data) = BlobOf(r2.data)
  /\ r1.kind = "error" => r1.error = r2.error
  /\ r1.kind = "confirmed" => r1.handle = r2.handle

C13_Independent ==
  \A s1 \in Slots, s2 \in Slots :
    LET c1 == calls[s1]
        c2 == calls[s2]
    IN SameRequest(c1, c2) =>
         /\ c1.derived = c2.derived
         /\ c1.fetched = c2.fetched
         /\ c1.submitted = c2.submitted
         /\ (c1.pc = "done" /\ c2.pc = "done" /\ SameResponse(c1.response, c2.response))
              => c1.result = c2.result

\* C14: the encoders of AddReview and UpdateReview accept every integer score:
\* the score byte is the score itself when it is in 0..255 and the score
\* modulo 256 otherwise, always one byte, so the length of the payload and the
\* place of the comment field are the same for every score.
ScoreByte(score) ==
  IF score \in 0..255 THEN score
  ELSE CHOOSE b \in 0..255 : \E k \in -4..4 : score = b + 256 * k

C14_ScoreUnchecked ==
  LET a == ixArgs
      d == ix.data
      at == IF a.op = "AddReview" THEN 1 + 4 + Utf8Count(a.productId) + 1 ELSE 2
  IN a.op \in {"AddReview", "UpdateReview"} =>
       /\ Len(d) = at + 4 + Utf8Count(a.comment)
       /\ d[at] = ScoreByte(a.score)
       /\ SubSeq(d, at + 1, Len(d)) = encodeString(a.comment)
       /\ a.op = "AddReview" =>
            SubSeq(d, 1, at - 1) = <<4>> \o encodeString(a.productId)
       /\ a.op = "UpdateReview" => d[1] = 5

C14_Witness ==
  /\ ixArgs.op = "AddReview"
  /\ ixArgs.score = 261
  /\ ixArgs.comment = StrGreat
  /\ ix.data[1 + 4 + Utf8Count(ixArgs.productId) + 1] = 5

\* C15: when an address derivation of a call fails (a productId or date seed
\* longer than 32 bytes, or no viable bump), a write fails with that error and
\* hands nothing to the transport, and a lookup returns the absent result
\* without issuing a fetch.
SeedTooLong(str) == Len(Utf8Bytes(str)) > 32

TakesProductId ==
  {"getProduct", "getReview", "createProduct", "updateProduct", "deleteProduct",
   "addReview", "updateReview"}

C15_DerivationFailure ==
  \A slot \in Slots :
    LET c == calls[slot]
    IN c.op # "none" =>
         /\ (c.op \in TakesProductId /\ SeedTooLong(c.args.productId))
              => ~AllOk(c.derived)
         /\ (c.op = "getDailyClaims" /\ c.args.date.given
               /\ SeedTooLong(c.args.date.value)) => ~AllOk(c.derived)
         /\ ~AllOk(c.derived) =>
              /\ c.pc = "done"
              /\ c.fetched = <<>>
              /\ c.submitted = <<>>
              /\ c.response = NoResponse
              /\ ~c.decoderRan
              /\ IsLookup(c) => c.result = Absent
              /\ IsWrite(c) =>
                   /\ c.result.status = "error"
                   /\ c.result.error = c.derived[Len(c.derived)].error
                   /\ c.result.error \in {"Max seed length exceeded",
                                          "Unable to find a viable program address nonce"}

C15_Witness ==
  \E s1 \in Slots, s2 \in Slots :
    /\ calls[s1].op = "createProduct"
    /\ SeedTooLong(calls[s1].args.productId)
    /\ calls[s1].result.status = "error"
    /\ calls[s1].submitted = <<>>
    /\ calls[s2].op = "getDailyClaims"
    /\ SeedTooLong(calls[s2].args.date.value)
    /\ calls[s2].result = Absent
    /\ calls[s2].fetched = <<>>

====
